---- MODULE Spec2Model ----
(***************************************************************************)
(* A model of the localtunnel client (src/localtunnel.go): the Tunnel's    *)
(* registration (OpenAs/setup/establish), its teardown (Close), and the    *)
(* per-connection goroutines (conn.open, conn.pipe, chanFromConn).         *)
(*                                                                         *)
(* Goroutines are interleaved at the points where the Go code can be       *)
(* pre-empted with an observable effect: mutex acquisition, network calls  *)
(* (http.Get, net.Dial, conn.Read) and channel operations.  A panic        *)
(* (close of a nil or of a closed channel) ends the process: no goroutine  *)
(* takes another step.                                                     *)
(***************************************************************************)
EXTENDS Integers, Sequences, FiniteSets, TLC

(* ------------------------------ bounds -------------------------------- *)

\* conn goroutines the model can hold; also the largest max_conn_count
MaxConns == 2
\* OpenAs calls of the owning caller
MaxOpens == 2
\* Close calls of the owning caller (one per received interrupt in main)
MaxCloses == 2
\* successful reads of n > 0 bytes, over all sockets
MaxReads == 2
\* read errors (EOF, reset), over all sockets
MaxReadErrs == 2
\* bytes one Read may return (stands for the 1024-byte buffer)
BufSize == 2

Conns == 1..MaxConns
Chans == 1..MaxOpens
Sides == {"remote", "local"}

(* ------------------------------ state --------------------------------- *)

VARIABLES
    t,          \* the Tunnel: its fields, closeCh (0 is nil) and mutex m
    closed,     \* the channels made by OpenAs that have been closed
    fired,      \* per channel: how many times close() was executed on it
    fault,      \* "none", or the panic that ended the process
    opc,        \* the owning caller's position
    oi,         \* establish's loop variable i
    oerr,       \* the error the OpenAs in progress is about to return
    pre,        \* the Tunnel, the closed channels and the conn goroutines as
                \* they were when the OpenAs in progress took the lock
    kOf,        \* per channel: the max_conn_count of the handshake it was made for
    nOpens,     \* OpenAs calls made so far
    nCloses,    \* Close calls the owner made so far
    phase,      \* "new", "open" (an OpenAs returned nil), "closed" (a Close ran since)
    ownerClosed,\* the owner has called Close since the last successful OpenAs
    lastResp,   \* the handshake response of the last successful setup
    closedBy,   \* who ran the last Close
    conn,       \* per conn goroutine: position, sockets, select's closeCh, session
    relay,      \* per conn and side: the chanFromConn goroutine reading that socket
    log,        \* per conn: chunks read from / written to each socket (history)
    orphan,     \* per conn and side: the chanFromConn goroutine of the pipe
                \* that conn last left
    reads,      \* successful reads so far
    readErrs    \* read errors so far

vars == <<t, closed, fired, fault, opc, oi, oerr, pre, kOf, nOpens,
          nCloses, phase, ownerClosed, lastResp, closedBy, conn, relay, log,
          orphan, reads, readErrs>>

ownerVars == <<opc, oi, oerr, pre, kOf, nOpens>>
connVars == <<conn, relay, log, orphan>>

(* --------------------------- the Tunnel ------------------------------- *)

\* NewTunnel(host, port): everything but localHost and localPort is zero.
NewTunnel(host, port) ==
    [remoteHost |-> "", remotePort |-> 0, localHost |-> host, localPort |-> port,
     subdomain |-> "", url |-> "", maxConn |-> 0, closeCh |-> 0, m |-> "free"]

RemoteHost == t.remoteHost
RemotePort == t.remotePort
LocalHost == t.localHost
LocalPort == t.localPort
Subdomain == t.subdomain
URL == t.url
MaxConn == t.maxConn
Closing == t.closeCh

ZeroFields == <<"", 0, "", "", 0>>

(* What http.Get and the JSON decoder can produce for GET endPoint/?new:   *)
(* a transport error, a body that does not decode, the empty object (all   *)
(* fields omitted), or a registration with max_conn_count k.  The broker   *)
(* hands out a fresh subdomain per request: the first one to the first     *)
(* request, another one to every later request.                            *)
Registered(req, k) ==
    [err |-> "none", host |-> "localtunnel.me",
     id |-> IF req = 1 THEN "abc123" ELSE "xyz789",
     url |-> IF req = 1 THEN "https://abc123.localtunnel.me"
                        ELSE "https://xyz789.localtunnel.me",
     port |-> 7000, max |-> k]

EmptyObject ==
    [err |-> "none", host |-> "localtunnel.me", id |-> "", url |-> "",
     port |-> 0, max |-> 0]

TransportError ==
    [err |-> "transport", host |-> "", id |-> "", url |-> "", port |-> 0, max |-> 0]

DecodeError ==
    [err |-> "decode", host |-> "localtunnel.me", id |-> "", url |-> "",
     port |-> 0, max |-> 0]

Responses(req, free) ==
    {TransportError, DecodeError, EmptyObject}
        \cup {Registered(req, k) : k \in 0..free}

NoResp == EmptyObject

\* setup with the fields assigned before the body is decoded.
setupEarlyHost(tt, r) ==
    IF r.err = "transport" THEN tt
    ELSE IF r.err = "decode" THEN [tt EXCEPT !.remoteHost = r.host]
    ELSE [tt EXCEPT !.remoteHost = r.host, !.remotePort = r.port,
                    !.maxConn = r.max, !.subdomain = r.id, !.url = r.url]

\* setup with url and subdomain taken from the wrong response fields.
setupSwapped(tt, r) ==
    IF r.err # "none" THEN tt
    ELSE [tt EXCEPT !.remoteHost = r.host, !.remotePort = r.port,
                    !.maxConn = r.max, !.subdomain = r.url, !.url = r.id]

\* Tunnel.setup: returns the error untouched, or assigns the five fields.
setup(tt, r) ==
    IF r.err # "none" THEN tt
    ELSE [tt EXCEPT !.remoteHost = r.host, !.remotePort = r.port,
                    !.maxConn = r.max, !.subdomain = r.id, !.url = r.url]

\* Close that forgets to reset the url.
ResetKeepsURL(tt) ==
    [tt EXCEPT !.remoteHost = "", !.remotePort = 0, !.maxConn = 0,
               !.subdomain = ""]

\* OpenAs that goes on to make and establish whatever setup returned.
afterSetupIgnoringErr(err) == "make"

\* OpenAs: if err != nil { return err }, else on to make(chan struct{}).
afterSetup(err) == IF err = "none" THEN "make" ELSE "return"

\* Close that also forgets the local server.
ResetWithLocal(tt) ==
    [tt EXCEPT !.remoteHost = "", !.remotePort = 0, !.maxConn = 0,
               !.subdomain = "", !.url = "", !.localHost = "", !.localPort = 0]

\* The five assignments of Tunnel.Close.
Reset(tt) ==
    [tt EXCEPT !.remoteHost = "", !.remotePort = 0, !.maxConn = 0,
               !.subdomain = "", !.url = ""]

\* close(t.closeCh): panics on a nil channel and on a closed channel.
CloseFault(ch) ==
    IF ch = 0 THEN "close of nil channel"
    ELSE IF ch \in closed THEN "close of closed channel"
    ELSE "none"


\* The body of Tunnel.Close run by `who`: the resets, then close(t.closeCh).
\* The deferred Unlock runs even when close panics; the panic then ends the
\* process.
CloseBody(who) ==
    /\ t' = Reset(t)
    /\ fault' = CloseFault(t.closeCh)
    /\ closed' = IF CloseFault(t.closeCh) = "none" THEN closed \cup {t.closeCh}
                                                   ELSE closed
    /\ fired' = IF t.closeCh = 0 THEN fired
                ELSE [fired EXCEPT ![t.closeCh] = @ + 1]
    /\ phase' = "closed"
    /\ closedBy' = who

(* ------------------------- conn and relays ---------------------------- *)

Snapshot(tt, cl, live) == [tun |-> tt, closed |-> cl, live |-> live]
NoSnapshot == Snapshot(NewTunnel("localhost", 8000), {}, {})

NoConn ==
    [pc |-> "none", remoteConn |-> "nil", localConn |-> "nil", watch |-> 0,
     sess |-> 0, redial |-> "no", why |-> "none"]

RelayOff == [pc |-> "off", chunk |-> <<>>, err |-> FALSE]
RelayReading == [pc |-> "read", chunk |-> <<>>, err |-> FALSE]
NoRelays == [s \in Sides |-> RelayOff]
NoOrphans == [s \in Sides |-> "off"]
NoLog == [rd |-> [s \in Sides |-> <<>>], wr |-> [s \in Sides |-> <<>>]]

Other(s) == IF s = "remote" THEN "local" ELSE "remote"

FreeConns == {c \in Conns : conn[c].pc = "none"}
LiveConns == {c \in Conns : conn[c].pc # "none"}

RECURSIVE Flat(_)
Flat(chunks) ==
    IF chunks = <<>> THEN <<>> ELSE Head(chunks) \o Flat(Tail(chunks))

IsPrefix(a, b) ==
    /\ Len(a) <= Len(b)
    /\ \A i \in 1..Len(a) : a[i] = b[i]

\* net.Dial on the address open() builds from RemoteHost() and RemotePort():
\* the zero address ":0" cannot be connected to.
AddrOk(host, port) == host # "" /\ port # 0

\* conn.close that releases the local socket only.
closeLocalOnly(cs) ==
    [cs EXCEPT !.localConn = IF @ = "nil" THEN "nil" ELSE "closed"]

\* conn.close: both sockets, each unless nil.
close(cs) ==
    [cs EXCEPT !.localConn = IF @ = "nil" THEN "nil" ELSE "closed",
               !.remoteConn = IF @ = "nil" THEN "nil" ELSE "closed"]

\* establish with an off-by-one loop bound.
establishMoreInclusive(i) == i <= MaxConn

\* establish as a loop that runs its body before testing the bound.
establishAtLeastOnce(i) == i = 0 \/ i < MaxConn

\* establish's loop condition, i < t.MaxConn(), read on every iteration.
establishMore(i) == i < MaxConn

\* chanFromConn forwarding whatever Read returned, n = 0 included.
forwardsAlways(n) == n >= 0

\* chanFromConn's `if n > 0`.
forwards(n) == n > 0

\* res := make([]byte, n); copy(res, b[:n]): the n bytes that follow the
\* pos bytes this socket has delivered so far.
copyOf(pos, n) == [i \in 1..n |-> pos + i]

(* ------------------------------ Init ---------------------------------- *)

Init ==
    /\ t = NewTunnel("localhost", 8000)
    /\ closed = {}
    /\ fired = [ch \in Chans |-> 0]
    /\ fault = "none"
    /\ opc = "idle"
    /\ oi = 0
    /\ oerr = "none"
    /\ pre = NoSnapshot
    /\ kOf = [ch \in Chans |-> 0]
    /\ nOpens = 0
    /\ nCloses = 0
    /\ phase = "new"
    /\ ownerClosed = FALSE
    /\ lastResp = NoResp
    /\ closedBy = <<"none", "no">>
    /\ conn = [c \in Conns |-> NoConn]
    /\ relay = [c \in Conns |-> NoRelays]
    /\ log = [c \in Conns |-> NoLog]
    /\ orphan = [c \in Conns |-> NoOrphans]
    /\ reads = 0
    /\ readErrs = 0

Running == fault = "none"

(* ------------------------ the owning caller --------------------------- *)

\* OpenAs: t.m.Lock()
OpenAsLock ==
    /\ Running /\ opc = "idle" /\ nOpens < MaxOpens /\ t.m = "free"
    /\ t' = [t EXCEPT !.m = "owner"]
    /\ opc' = "setup" /\ nOpens' = nOpens + 1
    /\ pre' = Snapshot(t, closed, LiveConns)
    /\ UNCHANGED <<oi, oerr, kOf, closed, fired, fault, nCloses, phase, ownerClosed,
                   lastResp, closedBy, connVars, reads, readErrs>>

\* OpenAs: err := t.setup(subdomain)
OpenAsSetup ==
    /\ Running /\ opc = "setup"
    /\ \E r \in Responses(nOpens, Cardinality(FreeConns)) :
          /\ t' = setup(t, r)
          /\ oerr' = r.err
          /\ opc' = afterSetup(r.err)
          /\ lastResp' = IF r.err = "none" THEN r ELSE lastResp
          /\ pre' = IF r.err = "none" THEN NoSnapshot ELSE pre
    /\ UNCHANGED <<oi, kOf, nOpens, closed, fired, fault, nCloses,
                   phase, ownerClosed, closedBy, connVars, reads, readErrs>>

\* OpenAs: if err != nil { return err } with the deferred Unlock
OpenAsReturnErr ==
    /\ Running /\ opc = "return"
    /\ t' = [t EXCEPT !.m = "free"]
    /\ opc' = "idle" /\ oerr' = "none"
    /\ pre' = NoSnapshot
    /\ UNCHANGED <<oi, kOf, nOpens, closed, fired, fault, nCloses,
                   phase, ownerClosed, lastResp, closedBy, connVars, reads,
                   readErrs>>

\* OpenAs: t.closeCh = make(chan struct{})
OpenAsMake ==
    /\ Running /\ opc = "make"
    /\ t' = [t EXCEPT !.closeCh = nOpens]
    /\ opc' = "establish" /\ oi' = 0
    /\ kOf' = [kOf EXCEPT ![nOpens] = MaxConn]
    /\ UNCHANGED <<oerr, pre, nOpens, closed, fired, fault,
                   nCloses, phase, ownerClosed, lastResp, closedBy, connVars,
                   reads, readErrs>>

\* establish: c := &conn{t: t}; go c.open()
OpenAsSpawn ==
    /\ Running /\ opc = "establish" /\ establishMore(oi)
    /\ FreeConns # {}
    /\ LET c == CHOOSE x \in FreeConns : \A y \in FreeConns : x <= y
       IN  conn' = [conn EXCEPT ![c] =
                       [NoConn EXCEPT !.pc = "dialRemote", !.sess = t.closeCh]]
    /\ oi' = oi + 1
    /\ UNCHANGED <<t, opc, oerr, pre, kOf, nOpens, closed, fired,
                   fault, nCloses, phase, ownerClosed, lastResp, closedBy, relay,
                   log, orphan, reads, readErrs>>

\* OpenAs: return nil with the deferred Unlock
OpenAsReturnNil ==
    /\ Running /\ opc = "establish" /\ ~establishMore(oi)
    /\ t' = [t EXCEPT !.m = "free"]
    /\ opc' = "idle" /\ phase' = "open" /\ ownerClosed' = FALSE
    /\ oi' = 0
    /\ UNCHANGED <<oerr, pre, kOf, nOpens, closed, fired, fault,
                   nCloses, lastResp, closedBy, connVars, reads, readErrs>>

\* The owner's t.Close(): from API users, and from main once per interrupt.
OwnerClose ==
    /\ Running /\ opc = "idle" /\ nCloses < MaxCloses /\ t.m = "free"
    /\ CloseBody(<<"owner", "no">>)
    /\ nCloses' = nCloses + 1
    /\ ownerClosed' = TRUE
    /\ UNCHANGED <<ownerVars, lastResp, connVars, reads, readErrs>>

(* --------------------------- conn.open -------------------------------- *)

\* open: net.Dial("tcp", JoinHostPort(RemoteHost(), RemotePort())) is issued
DialRemote(c) ==
    /\ Running /\ conn[c].pc = "dialRemote"
    /\ conn' = [conn EXCEPT ![c] =
                  IF AddrOk(RemoteHost, RemotePort)
                  THEN [@ EXCEPT !.pc = "connecting"]
                  ELSE [@ EXCEPT !.pc = "closing", !.remoteConn = "nil",
                                 !.why = "remote"]]
    /\ UNCHANGED <<t, closed, fired, fault, ownerVars, nCloses, phase,
                   ownerClosed, lastResp, closedBy, relay, log, orphan, reads,
                   readErrs>>

\* open: the remote dial returns, with a connection (ok) or an error
DialRemoteDone(c, ok) ==
    /\ Running /\ conn[c].pc = "connecting"
    /\ conn' = [conn EXCEPT ![c] =
                  IF ok
                  THEN [@ EXCEPT !.pc = "dialLocal", !.remoteConn = "open"]
                  ELSE [@ EXCEPT !.pc = "closing", !.remoteConn = "nil",
                                 !.why = "remote"]]
    /\ UNCHANGED <<t, closed, fired, fault, ownerVars, nCloses, phase,
                   ownerClosed, lastResp, closedBy, relay, log, orphan, reads,
                   readErrs>>

\* open: net.Dial to the local server; on success pipe() starts both
\* chanFromConn goroutines and enters its select on c.t.closeCh
DialLocal(c, ok) ==
    /\ Running /\ conn[c].pc = "dialLocal"
    /\ conn' = [conn EXCEPT ![c] =
                  IF ok
                  THEN [@ EXCEPT !.pc = "pipe", !.localConn = "open",
                                 !.watch = t.closeCh]
                  ELSE [@ EXCEPT !.pc = "closing", !.localConn = "nil",
                                 !.why = "local"]]
    /\ relay' = [relay EXCEPT ![c] =
                  IF ok THEN [s \in Sides |-> RelayReading] ELSE @]
    /\ log' = [log EXCEPT ![c] = NoLog]
    /\ UNCHANGED <<t, closed, fired, fault, ownerVars, nCloses, phase,
                   ownerClosed, lastResp, closedBy, orphan, reads, readErrs>>

\* open: c.t.Close() after a failed dial, then return (a Close that panics
\* never returns)
ConnClose(c) ==
    /\ Running /\ conn[c].pc = "closing" /\ t.m = "free"
    /\ CloseBody(<<conn[c].why, conn[c].redial>>)
    /\ conn' = [conn EXCEPT ![c] =
                  IF CloseFault(t.closeCh) = "none"
                  THEN [@ EXCEPT !.pc = "done", !.why = "none", !.redial = "no"]
                  ELSE @]
    /\ UNCHANGED <<ownerVars, nCloses, ownerClosed, lastResp, relay, log,
                   orphan, reads, readErrs>>

(* -------------------------- chanFromConn ------------------------------ *)

\* What conn.Read can return: n bytes, an error, or both (a Read of no
\* bytes and no error leaves chanFromConn where it was).
ReadCan(n, e) ==
    /\ n > 0 \/ e
    /\ n > 0 => reads < MaxReads
    /\ e => readErrs < MaxReadErrs

\* chanFromConn: n, err := conn.Read(b), up to the send it blocks on
RelayRead(c, s) ==
    /\ Running /\ conn[c].pc = "pipe" /\ relay[c][s].pc = "read"
    /\ \E n \in 0..BufSize, e \in BOOLEAN :
          /\ ReadCan(n, e)
          /\ LET pos == Len(Flat(log[c].rd[s]))
                 res == copyOf(pos, n)
             IN  /\ relay' = [relay EXCEPT ![c][s] =
                        IF forwards(n)
                        THEN [pc |-> "sendData", chunk |-> res, err |-> e]
                        ELSE [pc |-> "sendErr", chunk |-> <<>>, err |-> e]]
                 /\ log' = [log EXCEPT ![c].rd[s] =
                        IF n > 0 THEN Append(@, [i \in 1..n |-> pos + i]) ELSE @]
          /\ reads' = IF n > 0 THEN reads + 1 ELSE reads
          /\ readErrs' = IF e THEN readErrs + 1 ELSE readErrs
    /\ UNCHANGED <<t, closed, fired, fault, ownerVars, nCloses, phase,
                   ownerClosed, lastResp, closedBy, conn, orphan>>

(* ---------------------------- conn.pipe ------------------------------- *)

\* Where a chanFromConn goroutine is left when its pipe returns: blocked on
\* the send it was at, c <- res or errorCh <- err, which nobody receives any
\* more; one that was in Read gets the error of the socket c.close() has
\* closed (n = 0) and blocks on errorCh <- err.
Left(r) == IF r.pc = "read" THEN "sendErr" ELSE r.pc

\* select: case b := <-remoteCh / <-localCh: write b to the opposite socket,
\* then loop (the next select evaluates c.t.closeCh again)
PipeData(c, s) ==
    /\ Running /\ conn[c].pc = "pipe" /\ relay[c][s].pc = "sendData"
    /\ log' = [log EXCEPT ![c].wr[Other(s)] = Append(@, relay[c][s].chunk)]
    /\ relay' = [relay EXCEPT ![c][s] =
                   IF @.err THEN [pc |-> "sendErr", chunk |-> <<>>, err |-> TRUE]
                            ELSE RelayReading]
    /\ conn' = [conn EXCEPT ![c].watch = t.closeCh]
    /\ UNCHANGED <<t, closed, fired, fault, ownerVars, nCloses, phase,
                   ownerClosed, lastResp, closedBy, orphan, reads, readErrs>>

\* select: case <-errorCh: c.close(); c.open().  The relay whose error is
\* received breaks out of its loop; the other one is left where it is, with
\* nobody to receive from its channels any more.
PipeError(c) ==
    /\ Running /\ conn[c].pc = "pipe"
    /\ \E s \in Sides :
          /\ relay[c][s].pc = "sendErr"
          /\ orphan' = [orphan EXCEPT ![c] =
                [x \in Sides |-> IF x = s THEN "off" ELSE Left(relay[c][x])]]
    /\ conn' = [conn EXCEPT ![c] =
                  [close(@) EXCEPT !.pc = "dialRemote", !.watch = 0,
                      !.redial = IF conn[c].watch \in closed THEN "closed"
                                                              ELSE "open"]]
    /\ relay' = [relay EXCEPT ![c] = NoRelays]
    /\ log' = [log EXCEPT ![c] = NoLog]
    /\ UNCHANGED <<t, closed, fired, fault, ownerVars, nCloses, phase,
                   ownerClosed, lastResp, closedBy, reads, readErrs>>

\* select: case <-c.t.closeCh: c.close(); return
PipeClosed(c) ==
    /\ Running /\ conn[c].pc = "pipe" /\ conn[c].watch \in closed
    /\ conn' = [conn EXCEPT ![c] =
                  [close(@) EXCEPT !.pc = "done", !.watch = 0, !.redial = "no"]]
    /\ orphan' = [orphan EXCEPT ![c] = [x \in Sides |-> Left(relay[c][x])]]
    /\ relay' = [relay EXCEPT ![c] = NoRelays]
    /\ log' = [log EXCEPT ![c] = NoLog]
    /\ UNCHANGED <<t, closed, fired, fault, ownerVars, nCloses, phase,
                   ownerClosed, lastResp, closedBy, reads, readErrs>>

(* -------------------------- specifications ---------------------------- *)

\* The steps of an OpenAs call that has taken the lock.
OwnerCall ==
    \/ OpenAsSetup
    \/ OpenAsReturnErr
    \/ OpenAsMake
    \/ OpenAsSpawn
    \/ OpenAsReturnNil

OwnerStep ==
    \/ OpenAsLock
    \/ OwnerCall

ConnStep(c) ==
    \/ DialRemote(c)
    \/ \E ok \in BOOLEAN : DialRemoteDone(c, ok)
    \/ \E ok \in BOOLEAN : DialLocal(c, ok)
    \/ \E s \in Sides : RelayRead(c, s)
    \/ \E s \in Sides : PipeData(c, s)
    \/ PipeError(c)

Next ==
    \/ OwnerStep
    \/ OwnerClose
    \/ \E c \in Conns : ConnStep(c)
    \/ \E c \in Conns : ConnClose(c)
    \/ \E c \in Conns : PipeClosed(c)

Spec == Init /\ [][Next]_vars

(* One session whose owner never calls Close: every Close is the one of a  *)
(* connection whose dial failed.  A goroutine that can take a step of the  *)
(* program eventually takes one (the Go scheduler starves no goroutine,    *)
(* http.Get and net.Dial return, select serves a ready case); whether the  *)
(* peers send data is left to them.                                        *)
ConnProgress(c) ==
    \/ DialRemote(c)
    \/ \E ok \in BOOLEAN : DialRemoteDone(c, ok)
    \/ \E ok \in BOOLEAN : DialLocal(c, ok)
    \/ \E s \in Sides : PipeData(c, s)
    \/ PipeError(c)
    \/ PipeClosed(c)
    \/ ConnClose(c)

NextDial ==
    \/ OpenAsLock /\ nOpens = 0
    \/ OwnerCall
    \/ \E c \in Conns : ConnStep(c)
    \/ \E c \in Conns : ConnClose(c)
    \/ \E c \in Conns : PipeClosed(c)

SpecDial ==
    /\ Init /\ [][NextDial]_vars
    /\ WF_vars(OwnerCall)
    /\ \A c \in Conns : WF_vars(ConnProgress(c))

(* Every dial of a valid address succeeds and the owner never calls        *)
(* Close: the hypotheses of the pool's convergence.  Read errors still     *)
(* occur (MaxReadErrs of them).                                            *)
StableConnStep(c) ==
    \/ DialRemote(c)
    \/ DialRemoteDone(c, TRUE)
    \/ DialLocal(c, TRUE)
    \/ \E s \in Sides : RelayRead(c, s)
    \/ \E s \in Sides : PipeData(c, s)
    \/ PipeError(c)

StableConnProgress(c) ==
    \/ DialRemote(c)
    \/ DialRemoteDone(c, TRUE)
    \/ DialLocal(c, TRUE)
    \/ \E s \in Sides : PipeData(c, s)
    \/ PipeError(c)
    \/ PipeClosed(c)
    \/ ConnClose(c)

NextStable ==
    \/ OwnerStep
    \/ \E c \in Conns : StableConnStep(c)
    \/ \E c \in Conns : ConnClose(c)
    \/ \E c \in Conns : PipeClosed(c)

SpecStable ==
    /\ Init /\ [][NextStable]_vars
    /\ WF_vars(OwnerCall)
    /\ \A c \in Conns : WF_vars(StableConnProgress(c))

(* ------------------------------ claims -------------------------------- *)

Accessors == <<RemoteHost, RemotePort, Subdomain, URL, MaxConn>>
Reported(r) == <<r.host, r.port, r.id, r.url, r.max>>

Dialing(c) == conn[c].pc \in {"dialRemote", "connecting", "dialLocal"}
Relaying(c) == conn[c].pc = "pipe"
Session(ch) == {c \in Conns : conn[c].sess = ch}

\* C1: within one session the close signal is fired at most once and no
\* Close faults, whoever calls Close (the owner, once per interrupt, or a
\* connection whose dial failed) and in whatever order.
C1_CloseSignalFiredAtMostOnce ==
    /\ \A ch \in Chans : fired[ch] <= 1
    /\ fault # "close of closed channel"

\* C2: before the first successful OpenAs, and from a Close until the next
\* successful OpenAs, every handshake-derived accessor reports its zero value
\* (an OpenAs whose handshake has succeeded and which is spawning its
\* connections is that OpenAs, not the time before it).
C2_FieldsZeroOutsideSession ==
    (phase # "open" /\ opc \notin {"make", "establish"})
        => Accessors = ZeroFields

\* C2 witness: a registered session has been closed without a fault.
C2_ClosedAfterRegistration ==
    /\ phase = "closed" /\ fault = "none" /\ opc = "idle"
    /\ lastResp.url # "" /\ closed # {}

\* C3 as claimed: after OpenAs has returned nil and until the caller itself
\* calls Close, the accessors report the values of that handshake response.
C3_AccessorsReportHandshakeUntilOwnerClose ==
    (opc = "idle" /\ phase # "new" /\ ~ownerClosed)
        => Accessors = Reported(lastResp) /\ RemoteHost # ""

\* C3 as amended: after OpenAs has returned nil and until any Close runs,
\* the caller's or the one of a connection whose dial failed, the accessors
\* report the values of that handshake response.
C3_AccessorsReportHandshakeUntilAnyClose ==
    (opc = "idle" /\ phase = "open")
        => Accessors = Reported(lastResp) /\ RemoteHost # ""

\* C3 witness: the second registration is the one reported, its pool is up.
C3_SecondSessionReported ==
    /\ opc = "idle" /\ phase = "open"
    /\ URL = "https://xyz789.localtunnel.me"
    /\ \E c \in Conns : Relaying(c)

\* C4: when the handshake fails, OpenAs is about to return that error with
\* the Tunnel's fields, its close signal and the set of spawned connections
\* exactly as they were when the call took the lock.
C4_FailedHandshakeLeavesTunnel ==
    opc = "return"
        => /\ oerr \in {"transport", "decode"}
           /\ [t EXCEPT !.m = "free"] = pre.tun
           /\ closed = pre.closed
           /\ LiveConns = pre.live

\* C4 witness: a handshake fails on a Tunnel whose session is open.
C4_FailureDuringOpenSession ==
    /\ opc = "return" /\ oerr = "decode"
    /\ URL # "" /\ closed = {} /\ LiveConns # {}

\* C5: a local server that goes away while the tunnel is open does not close
\* the tunnel: no Close is ever run for the failed local re-dial of a
\* connection that had been relaying while the tunnel was open.
C5_LocalOutageKeepsTunnelOpen ==
    closedBy # <<"local", "open">>

\* C6: once the Close of its session has completed, a connection relays no
\* further chunk and does not re-enter Dialing.
C6_NoRelayNoReplaceAfterClose ==
    [][\A c \in Conns :
          (Relaying(c) /\ conn[c].sess \in closed)
              => /\ \A s \in Sides :
                       Len(log'[c].wr[s]) <= Len(log[c].wr[s])
                 /\ conn'[c].pc # "dialRemote"]_vars

C10_WrittenIsPrefixOfRead ==
    \A c \in Conns : \A s \in Sides :
        /\ IsPrefix(log[c].wr[Other(s)], log[c].rd[s])
        /\ \A i \in 1..Len(log[c].wr[s]) : log[c].wr[s][i] # <<>>

\* C10 witness: two chunks have been relayed in one direction.
C10_TwoChunksRelayed ==
    \E c \in Conns : Len(log[c].wr["local"]) = 2

\* C7: when a connection's dial fails, the close signal of the session
\* fires, no connection of the session is replaced once it has fired, and
\* every connection of the session eventually terminates.
C7_DialFailureTearsDownPool ==
    /\ [][\A c \in Conns :
            (Relaying(c) /\ conn[c].sess \in closed)
                => conn'[c].pc # "dialRemote"]_vars
    /\ \A ch \in Chans :
          (\E c \in Session(ch) : conn[c].pc = "closing")
              ~> (ch \in closed /\ \A c \in Session(ch) : conn[c].pc = "done")

\* A dial has failed, or Close has been called.
DialFailedOrCloseCalled ==
    \/ closedBy # <<"none", "no">>
    \/ \E c \in Conns : conn[c].pc = "closing"

\* C8: a session made for max_conn_count k never has more than k live
\* connections and, unless a dial fails or Close is called, eventually has
\* exactly k connections Relaying.
C8_PoolConvergesToK ==
    /\ [](\A ch \in Chans :
            Cardinality({c \in Session(ch) : Dialing(c) \/ Relaying(c)})
                <= kOf[ch])
    /\ \A ch \in Chans :
          (t.closeCh = ch)
              ~> \/ Cardinality({c \in Session(ch) : Relaying(c)}) = kOf[ch]
                 \/ DialFailedOrCloseCalled

\* C8 witness: a pool of two is Relaying after one of its connections was
\* replaced.
C8_PoolOfTwoRelaying ==
    /\ \E ch \in Chans :
          /\ kOf[ch] = 2
          /\ Cardinality({c \in Session(ch) : Relaying(c)}) = 2
    /\ \E c \in Conns : conn[c].redial = "open"
    /\ ~DialFailedOrCloseCalled

\* The step in which conn c evaluates c.t.RemoteHost() and c.t.RemotePort().
ReadsRemoteAddr(c) ==
    conn[c].pc = "dialRemote" /\ conn'[c].pc \in {"connecting", "closing"}

\* C11: an accessor read by a connection is made holding the Tunnel's lock:
\* it is never taken while OpenAs or Close holds that lock, so it is never
\* concurrent with their writes.
C11_AccessorReadsHoldLock ==
    [][\A c \in Conns : ReadsRemoteAddr(c) => t.m = "free"]_vars

\* C12: a handshake answered with max_conn_count = 0 makes OpenAs return nil
\* with URL() the url of the response, and the session it opens never has a
\* connection: none is spawned, so none dials.
C12_ZeroMaxConnSpawnsNothing ==
    /\ \A ch \in Chans : kOf[ch] = 0 => Session(ch) = {}
    /\ (opc = "establish" /\ MaxConn = 0)
          => oerr = "none" /\ ~establishMore(oi)
    /\ (opc = "idle" /\ phase = "open" /\ lastResp.max = 0)
          => URL = lastResp.url /\ Session(t.closeCh) = {}

\* C12 witness: OpenAs has returned nil for a registration with
\* max_conn_count = 0.
C12_OpenWithEmptyPool ==
    /\ opc = "idle" /\ phase = "open" /\ fault = "none"
    /\ lastResp.max = 0 /\ URL = "https://abc123.localtunnel.me"
    /\ t.closeCh = 1 /\ LiveConns = {}

\* The step of establish that starts conn c: go c.open().
Spawned(c) == conn[c].pc = "none" /\ conn'[c].pc # "none"

\* C13: a connection is spawned only by an OpenAs whose handshake has just
\* succeeded, for the session that OpenAs opens, and only spawned connections
\* dial: every dial follows the successful handshake of its session.
C13_DialsFollowHandshake ==
    /\ [](\A c \in Conns : Dialing(c) => conn[c].sess \in 1..nOpens)
    /\ [][\A c \in Conns :
            Spawned(c)
                => /\ opc = "establish" /\ oerr = "none"
                   /\ Accessors = Reported(lastResp)
                   /\ t.closeCh = nOpens /\ conn'[c].sess = nOpens
                   /\ conn'[c].pc = "dialRemote"]_vars

\* C13 witness: a connection of the second session is dialing the remote.
C13_SecondSessionDials ==
    \E c \in Conns : conn[c].sess = 2 /\ conn[c].pc = "connecting"

\* C14: LocalHost() and LocalPort() are the arguments of NewTunnel in every
\* reachable state, whatever OpenAs, Close, failed dials and replacements
\* have happened.
C14_LocalAddrFixed ==
    <<LocalHost, LocalPort>> = <<"localhost", 8000>>

\* C14 witness: a second OpenAs has been called, a replaced connection's
\* local re-dial has failed and its Close has run.
C14_AfterReopenAndFailedRedial ==
    /\ nOpens = 2 /\ opc = "idle" /\ fault = "none"
    /\ closedBy = <<"local", "open">>

\* C15: an OpenAs that has taken the lock returns and releases it whatever
\* its connections do, and the Close invoked by a connection whose dial
\* failed gets the lock, runs without faulting and returns.
C15_OpenAsReturnsAndConnCloseCompletes ==
    /\ (opc # "idle") ~> (opc = "idle" /\ t.m = "free")
    /\ [](\A c \in Conns : conn[c].pc = "closing" => fault = "none")
    /\ \A c \in Conns : (conn[c].pc = "closing") ~> (conn[c].pc = "done")

\* C16: a relay whose read has failed hands its error to the relay loop and
\* stops; no relay is ever left sending a chunk or an error on a channel
\* whose receiver, the relay loop, has returned.
C16_RelaysTerminate ==
    /\ [](\A c \in Conns : \A s \in Sides : orphan[c][s] = "off")
    /\ \A c \in Conns : \A s \in Sides :
          (relay[c][s].pc = "sendErr")
              ~> (relay[c][s].pc = "off" /\ orphan[c][s] = "off")

\* C17: while a session is open the connections dialing or relaying are at
\* most MaxConn(), and a connection whose session has been closed, or
\* superseded by a later OpenAs, eventually terminates.
C17_ConnsDieWithTheirSession ==
    /\ []((opc = "idle" /\ phase = "open")
            => Cardinality({c \in Conns : Dialing(c) \/ Relaying(c)}) <= MaxConn)
    /\ \A c \in Conns :
          (conn[c].pc # "none"
              /\ (conn[c].sess \in closed \/ conn[c].sess # t.closeCh))
              ~> (conn[c].pc = "done")

\* C18: a connection that has terminated holds no open socket, whichever
\* way it terminated: close signal, or a Close after a failed dial.
C18_TerminatedConnHoldsNoSocket ==
    \A c \in Conns :
        conn[c].pc = "done"
            => conn[c].remoteConn # "open" /\ conn[c].localConn # "open"

\* C19: a Close on a Tunnel no OpenAs has ever succeeded on (t.closeCh is
\* still nil) returns without a fault, the fields zero and no signal fired.
C19_CloseBeforeOpenIsHarmless ==
    (t.closeCh = 0 /\ phase = "closed")
        => /\ fault = "none"
           /\ Accessors = ZeroFields
           /\ closed = {} /\ \A ch \in Chans : fired[ch] = 0

\* C20: when the relay loop closes a connection's sockets on a relay's read
\* error, every chunk read from either socket has been written to the
\* opposite one: none is still waiting in the other relay's send.
C20_NoChunkLostAtTeardown ==
    [][\A c \in Conns :
          (Relaying(c) /\ conn'[c].pc = "dialRemote")
              => \A s \in Sides :
                    /\ log[c].wr[Other(s)] = log[c].rd[s]
                    /\ orphan'[c][s] # "sendData"]_vars

====
